---- MODULE Spec2Model ----
(***************************************************************************)
(* A model of package clog (teejays/clog): the Clogger registry, the       *)
(* per-Clogger print path with its two sinks, the package-level flags and  *)
(* the decoration helpers.                                                  *)
(*                                                                         *)
(* Strings are sequences of one-character strings; the ESC byte 0x1b is    *)
(* the character named ESC and a line feed is the character named LF.      *)
(* Go slices are (arr, len, cap) headers over backing arrays kept in the   *)
(* variable arrays, so that two slices over one array alias as in Go.      *)
(***************************************************************************)
EXTENDS Naturals, Sequences, FiniteSets, TLC

VARIABLES
    cloggers,   \* the registry: Clogger name -> pointer (an index of heap)
    heap,       \* pointer -> Clogger struct
    arrays,     \* backing arrays of the []Decoration slices: id -> contents
    flags,      \* the package-level configuration variables
    out         \* what the last call did: writes to the sinks, panic, result

vars == <<cloggers, heap, arrays, flags, out>>

-----------------------------------------------------------------------------
(* Bounds of the model                                                     *)

\* AddDecoration is not called on a Clogger that already has this many
MaxDecs == 2

\* the longest string NewDecoration is called with
MaxCodeLen == 5

-----------------------------------------------------------------------------
(* Characters and string constants                                         *)

ESC == "ESC"
LF == "LF"

RESET == <<ESC, "[", "0", "m">>
BRIGHT == <<ESC, "[", "1", "m">>
FG_RED == <<ESC, "[", "3", "1", "m">>
FG_GREEN == <<ESC, "[", "3", "2", "m">>
FG_YELLOW == <<ESC, "[", "3", "3", "m">>
FG_BLUE == <<ESC, "[", "3", "4", "m">>
FG_MAGENTA == <<ESC, "[", "3", "5", "m">>
FG_CYAN == <<ESC, "[", "3", "6", "m">>
FG_WHITE == <<ESC, "[", "3", "7", "m">>

\* the log levels, lowest first
LogLevelDebug == 0
LogLevelInfo == 1
LogLevelNotice == 2
LogLevelWarning == 3
LogLevelError == 4
LogLevelCrit == 5

\* log/syslog severities and the facility the package logs under
LOG_CRIT == 2
LOG_ERR == 3
LOG_WARNING == 4
LOG_NOTICE == 5
LOG_INFO == 6
LOG_DEBUG == 7
DEFAULT_LOG_FACILITY == 136

LogLevelSysLogPriorityMap ==
    (LogLevelDebug :> LOG_DEBUG) @@ (LogLevelInfo :> LOG_INFO)
    @@ (LogLevelNotice :> LOG_NOTICE) @@ (LogLevelWarning :> LOG_WARNING)
    @@ (LogLevelError :> LOG_ERR) @@ (LogLevelCrit :> LOG_CRIT)

\* priority | DEFAULT_LOG_FACILITY: the severity fills the low three bits,
\* which the facility leaves clear, so the bitwise or is a sum
PriorityOr(priority) == DEFAULT_LOG_FACILITY + priority

-----------------------------------------------------------------------------
(* fmt.Sprintf on string arguments                                         *)

RECURSIVE JoinExtra(_)
\* the arguments no verb consumed, as fmt lists them
JoinExtra(args) ==
    IF args = <<>> THEN <<>>
    ELSE <<"s", "t", "r", "i", "n", "g", "=">> \o Head(args)
         \o (IF Tail(args) = <<>> THEN <<>> ELSE <<",", " ">>)
         \o JoinExtra(Tail(args))

RECURSIVE Sprintf(_, _)
Sprintf(format, args) ==
    IF format = <<>>
    THEN IF args = <<>> THEN <<>>
         ELSE <<"%", "!", "(", "E", "X", "T", "R", "A", " ">>
              \o JoinExtra(args) \o <<")">>
    ELSE IF Head(format) # "%"
    THEN <<Head(format)>> \o Sprintf(Tail(format), args)
    ELSE IF Tail(format) = <<>>
    THEN <<"%", "!", "(", "N", "O", "V", "E", "R", "B", ")">>
         \o Sprintf(<<>>, args)
    ELSE LET verb == format[2]
             rest == Tail(Tail(format))
         IN  IF verb = "%" THEN <<"%">> \o Sprintf(rest, args)
             ELSE IF args = <<>>
             THEN <<"%", "!", verb, "(", "M", "I", "S", "S", "I", "N", "G", ")">>
                  \o Sprintf(rest, args)
             ELSE IF verb \in {"s", "v"}
             THEN Head(args) \o Sprintf(rest, Tail(args))
             ELSE <<"%", "!", verb, "(", "s", "t", "r", "i", "n", "g", "=">>
                  \o Head(args) \o <<")">> \o Sprintf(rest, Tail(args))

\* fmt.Println of one string: the string and a line feed, written at once
Println(msg) == msg \o <<LF>>

\* log.Logger.Output with no prefix and no flags (syslog.NewLogger(p, 0)):
\* the text, with a line feed added when it does not end in one
LoggerOutput(s) ==
    IF s # <<>> /\ s[Len(s)] = LF THEN s ELSE s \o <<LF>>

-----------------------------------------------------------------------------
(* The formatter                                                            *)

\* time.Now().Format(TimestampFormat) under the default layout
\* "2006/01/02 15:04:05", for the instants the model draws
timestamp(now) ==
    <<"2", "0", "2", "6", "/", "1", "1", "/", "0", "2", " ",
      "1", "0", ":", "0", "0", ":", "0", now>>

prependTimestamp(msg, now) ==
    Sprintf(<<"%", "s", " ", "%", "s">>, <<timestamp(now), msg>>)

RECURSIVE decorationsCode(_)
\* the loop of decorate: the codes of the decorations, concatenated in order
decorationsCode(Decorations) ==
    IF Decorations = <<>> THEN <<>>
    ELSE Head(Decorations) \o decorationsCode(Tail(Decorations))

decorate(msg, Decorations) ==
    Sprintf(<<"%", "s", "%", "s", "%", "s">>,
            <<decorationsCode(Decorations), msg, RESET>>)

-----------------------------------------------------------------------------
(* Go slices over backing arrays                                            *)

\* the zero value of Decoration, the empty string
ZeroDecoration == <<>>

NilSlice == [arr |-> 0, len |-> 0, cap |-> 0]

\* the elements a slice header shows of its backing array
Elems(arrs, s) == [i \in 1..s.len |-> arrs[s.arr][i]]

\* an unused array id
NewArrayId(arrs) == CHOOSE id \in 1..(Cardinality(DOMAIN arrs) + 1) : id \notin DOMAIN arrs

\* the slice a variadic call builds from arguments written out one by one:
\* nil for none, else a fresh array exactly as long as the argument list
Variadic(arrs, elems) ==
    IF elems = <<>> THEN [arrays |-> arrs, s |-> NilSlice]
    ELSE LET id == NewArrayId(arrs)
         IN  [arrays |-> (id :> elems) @@ arrs,
              s |-> [arr |-> id, len |-> Len(elems), cap |-> Len(elems)]]

\* the capacity append grows a full slice to (runtime growslice, small slices)
GrowCap(cap) == IF cap = 0 THEN 1 ELSE 2 * cap

\* append(s, d): in place when the capacity allows, else into a grown copy
AppendOne(arrs, s, d) ==
    IF s.len < s.cap
    THEN [arrays |-> [arrs EXCEPT ![s.arr][s.len + 1] = d],
          s |-> [s EXCEPT !.len = s.len + 1]]
    ELSE LET id == NewArrayId(arrs)
             newcap == GrowCap(s.cap)
             old == Elems(arrs, s)
         IN  [arrays |-> (id :> [k \in 1..newcap |->
                                    IF k <= s.len THEN old[k]
                                    ELSE IF k = s.len + 1 THEN d
                                    ELSE ZeroDecoration]) @@ arrs,
              s |-> [arr |-> id, len |-> s.len + 1, cap |-> newcap]]

\* append(s[:i], s[i+1:]...) for 0 <= i < len: the new length fits the
\* capacity of s[:i], so the tail is moved down one place inside the array
\* (what lies past the new length stays as it was)
SpliceOut(arrs, s, i) ==
    [arrays |-> [arrs EXCEPT ![s.arr] =
                    [k \in 1..s.cap |->
                        IF k > i /\ k < s.len THEN @[k + 1] ELSE @[k]]],
     s |-> [s EXCEPT !.len = s.len - 1]]

RECURSIVE RemoveLoop(_, _, _, _, _)
\* the range loop of RemoveDecoration. The range expression is evaluated
\* once: its header r fixes the array and the number of iterations, while
\* each element is read from the array as it is at that iteration.
\* s is l.Decorations as assigned so far; s[i+1:] panics when i+1 > len(s).
RemoveLoop(arrs, r, s, d, i) ==
    IF i = r.len THEN [arrays |-> arrs, s |-> s, panic |-> FALSE]
    ELSE IF arrs[r.arr][i + 1] = d
    THEN IF i + 1 > s.len
         THEN [arrays |-> arrs, s |-> s, panic |-> TRUE]
         ELSE LET sp == SpliceOut(arrs, s, i)
              IN  RemoveLoop(sp.arrays, r, sp.s, d, i + 1)
    ELSE RemoveLoop(arrs, r, s, d, i + 1)

\* garbage collection: the backing arrays no Clogger's slice refers to
Collect(arrs, h) ==
    [id \in {h[p].Decorations.arr : p \in DOMAIN h} \ {0} |-> arrs[id]]

-----------------------------------------------------------------------------
(* The values the application passes in                                     *)

NameDebug == <<"D", "e", "b", "u", "g">>
NameInfo == <<"I", "n", "f", "o">>
NameNotice == <<"N", "o", "t", "i", "c", "e">>
NameWarning == <<"W", "a", "r", "n", "i", "n", "g">>
NameError == <<"E", "r", "r", "o", "r">>
NameCrit == <<"C", "r", "i", "t">>

\* the default cloggers: name, log level, decoration
DefaultProfiles ==
    << [Name |-> NameDebug, LogLevel |-> LogLevelDebug, Decoration |-> FG_WHITE],
       [Name |-> NameInfo, LogLevel |-> LogLevelInfo, Decoration |-> FG_GREEN],
       [Name |-> NameNotice, LogLevel |-> LogLevelNotice, Decoration |-> FG_CYAN],
       [Name |-> NameWarning, LogLevel |-> LogLevelWarning, Decoration |-> FG_YELLOW],
       [Name |-> NameError, LogLevel |-> LogLevelError, Decoration |-> FG_RED],
       [Name |-> NameCrit, LogLevel |-> LogLevelCrit, Decoration |-> FG_MAGENTA] >>

DefaultNames == {DefaultProfiles[i].Name : i \in DOMAIN DefaultProfiles}

\* names the application gives its own Cloggers
MyName == <<"m", "y">>
CustomNames == {MyName}

\* a name with a formatting verb in it, and the names of SpecFormat
PercentName == <<"a", "%", "s">>
FormatNames == {MyName, PercentName}

\* a name no Clogger is ever created under
NoName == <<"n", "o">>

Names == DefaultNames \cup CustomNames \cup {NoName}

\* the levels NewClogger is called with; the last maps to no syslog priority
LevelArgs == {LogLevelNotice, LogLevelCrit + 1}

\* the values the application assigns to LogLevel
Levels == LogLevelDebug..LogLevelCrit

\* the decorations the application adds and removes
Palette == {FG_RED, BRIGHT}

\* the decoration lists NewClogger is called with, written out one by one
DecorationArgs == {<<>>, <<FG_RED, BRIGHT, FG_RED, BRIGHT>>}

hello == <<"h", "e", "l", "l", "o">>

Msgs == {hello}

\* the instants the clock shows when a line is printed (the seconds digit)
Instants == {"5"}

-----------------------------------------------------------------------------
(* The state                                                                *)

\* out when the last step was no call that writes or returns anything.
\* stderr holds what the call handed to the standard logger of package log,
\* opened whether syslog.NewLogger gave the call a logger, exited whether
\* the call ended the process.
Quiet == [op |-> "", name |-> <<>>, l |-> 0, msg |-> <<>>, arg |-> <<>>,
          stdout |-> <<>>, syslog |-> <<>>, panic |-> FALSE, err |-> "",
          stderr |-> <<>>, opened |-> FALSE, exited |-> FALSE]

\* the previous call has returned: the application makes its next one
Idle == out = Quiet

\* the level LogLevel holds before the application assigns it: the runs of
\* the README print the Debug messages without setting it
InitialLogLevel == LogLevelDebug

DefaultFlags ==
    [LogToStdOut |-> TRUE, LogToSyslog |-> FALSE, UseDecoration |-> TRUE,
     PrependTimestamp |-> TRUE, PrependLoggerName |-> TRUE,
     LogLevel |-> InitialLogLevel]

\* registerClogger without its check: the entry is written over
registerCloggerOverwrites(reg, name, p) ==
    [cloggers |-> (name :> p) @@ reg, err |-> ""]

\* the lookup of registerClogger and its insertion
registerClogger(reg, name, p) ==
    IF name \in DOMAIN reg
    THEN [cloggers |-> reg, err |-> "already exists"]
    ELSE [cloggers |-> (name :> p) @@ reg, err |-> ""]

\* NewClogger that never keeps the logger syslog.NewLogger gave
NewCloggerOnNeverOpens(reg, h, arrs, name, logLevel, decorations, opened) ==
    LET p == Cardinality(DOMAIN h) + 1
    IN  IF logLevel \notin DOMAIN LogLevelSysLogPriorityMap
        THEN [cloggers |-> reg, heap |-> h, arrays |-> arrs, l |-> 0,
              panic |-> TRUE, err |-> "invalid LogLevel"]
        ELSE LET clogger == [Name |-> name,
                             LogLevel |-> logLevel,
                             Priority |-> PriorityOr(LogLevelSysLogPriorityMap[logLevel]),
                             Decorations |-> decorations,
                             Logger |-> FALSE]
                 r == registerClogger(reg, name, p)
             IN  IF r.err # ""
                 THEN [cloggers |-> r.cloggers, heap |-> h, arrays |-> arrs,
                       l |-> 0, panic |-> TRUE, err |-> r.err]
                 ELSE [cloggers |-> r.cloggers, heap |-> (p :> clogger) @@ h,
                       arrays |-> arrs, l |-> p, panic |-> FALSE, err |-> ""]

\* NewClogger on registry reg, heap h and arrays arrs, with the slice
\* decorations already built by the caller; opened tells whether
\* syslog.NewLogger gave a logger. The result is the state it leaves.
NewCloggerOn(reg, h, arrs, name, logLevel, decorations, opened) ==
    LET p == Cardinality(DOMAIN h) + 1
    IN  IF logLevel \notin DOMAIN LogLevelSysLogPriorityMap
        THEN [cloggers |-> reg, heap |-> h, arrays |-> arrs, l |-> 0,
              panic |-> TRUE, err |-> "invalid LogLevel"]
        ELSE LET clogger == [Name |-> name,
                             LogLevel |-> logLevel,
                             Priority |-> PriorityOr(LogLevelSysLogPriorityMap[logLevel]),
                             Decorations |-> decorations,
                             Logger |-> opened]
                 r == registerClogger(reg, name, p)
             IN  IF r.err # ""
                 THEN [cloggers |-> r.cloggers, heap |-> h, arrays |-> arrs,
                       l |-> 0, panic |-> TRUE, err |-> r.err]
                 ELSE [cloggers |-> r.cloggers, heap |-> (p :> clogger) @@ h,
                       arrays |-> arrs, l |-> p, panic |-> FALSE, err |-> ""]

RECURSIVE Bootstrap(_, _)
\* the initialisation of defaultCloggers: the first n default profiles
\* created in order on an empty registry
Bootstrap(n, opened) ==
    IF n = 0
    THEN [cloggers |-> <<>>, heap |-> <<>>, arrays |-> <<>>]
    ELSE LET before == Bootstrap(n - 1, opened)
             prof == DefaultProfiles[n]
             v == Variadic(before.arrays, <<prof.Decoration>>)
         IN  NewCloggerOn(before.cloggers, before.heap, v.arrays,
                          prof.Name, prof.LogLevel, v.s, opened)

\* the package after its initialisation: the registry made, the six default
\* cloggers created and registered, the flags at their declared values.
\* Whether the machine has a syslog daemon to open decides the handles.
Init ==
    \E opened \in BOOLEAN :
        LET b == Bootstrap(Len(DefaultProfiles), opened)
        IN  /\ cloggers = b.cloggers
            /\ heap = b.heap
            /\ arrays = b.arrays
            /\ flags = DefaultFlags
            /\ out = Quiet

-----------------------------------------------------------------------------
(* Registry operations                                                      *)

\* what NewClogger can be given as decorations: a list written out in the
\* call, or the Decorations slice of an existing Clogger passed with "..."
CallerArgs(h) ==
    [kind : {"list"}, elems : DecorationArgs, of : {0}]
        \cup [kind : {"slice"}, elems : {<<>>}, of : DOMAIN h]

CallerSlice(arrs, h, arg) ==
    IF arg.kind = "list" THEN Variadic(arrs, arg.elems)
    ELSE [arrays |-> arrs, s |-> h[arg.of].Decorations]

\* the log.Printf of NewClogger when syslog.NewLogger returned an error: a
\* line to the standard logger that names the profile. It comes after the
\* check of the level and before the registration.
NewLoggerFailure(name, logLevel, opened) ==
    IF logLevel \in DOMAIN LogLevelSysLogPriorityMap /\ ~opened
    THEN <<[by |-> "log.Printf", profile |-> name]>>
    ELSE <<>>

NewClogger(name, logLevel, arg, opened) ==
    LET v == CallerSlice(arrays, heap, arg)
        r == NewCloggerOn(cloggers, heap, v.arrays, name, logLevel, v.s, opened)
    IN  /\ Idle
        /\ cloggers' = r.cloggers
        /\ heap' = r.heap
        /\ arrays' = Collect(r.arrays, r.heap)
        /\ out' = [Quiet EXCEPT !.op = "NewClogger", !.name = name, !.l = r.l,
                                !.arg = <<logLevel>>,
                                !.panic = r.panic, !.err = r.err,
                                !.opened = opened,
                                !.stderr = NewLoggerFailure(name, logLevel, opened)]
        /\ UNCHANGED flags

\* a lookup that indexes the map with a fixed key
LookupFixedKey(reg, name) ==
    IF name \in DOMAIN reg
    THEN [l |-> reg[NameDebug], panic |-> FALSE, err |-> ""]
    ELSE [l |-> 0, panic |-> TRUE, err |-> "no logger with name"]

\* a lookup that returns the nil pointer of a miss instead of panicking
LookupNoPanic(reg, name) ==
    IF name \in DOMAIN reg
    THEN [l |-> reg[name], panic |-> FALSE, err |-> ""]
    ELSE [l |-> 0, panic |-> FALSE, err |-> ""]

\* the lookup of GetCloggerByName: the pointer stored, or the panic
Lookup(reg, name) ==
    IF name \in DOMAIN reg
    THEN [l |-> reg[name], panic |-> FALSE, err |-> ""]
    ELSE [l |-> 0, panic |-> TRUE, err |-> "no logger with name"]

GetCloggerByName(name) ==
    LET r == Lookup(cloggers, name)
    IN  /\ Idle
        /\ out' = [Quiet EXCEPT !.op = "GetCloggerByName", !.name = name,
                                !.l = r.l, !.panic = r.panic, !.err = r.err]
        /\ UNCHANGED <<cloggers, heap, arrays, flags>>

-----------------------------------------------------------------------------
(* Decorations of a Clogger                                                 *)

AddDecoration(l, d) ==
    LET a == AppendOne(arrays, heap[l].Decorations, d)
        h == [heap EXCEPT ![l].Decorations = a.s]
    IN  /\ Idle
        /\ heap[l].Decorations.len < MaxDecs
        /\ heap' = h
        /\ arrays' = Collect(a.arrays, h)
        /\ out' = [Quiet EXCEPT !.op = "AddDecoration", !.name = heap[l].Name,
                                !.l = l, !.arg = d]
        /\ UNCHANGED <<cloggers, flags>>

RemoveDecoration(l, d) ==
    LET s == heap[l].Decorations
        r == RemoveLoop(arrays, s, s, d, 0)
        h == [heap EXCEPT ![l].Decorations = r.s]
    IN  /\ Idle
        /\ heap' = h
        /\ arrays' = Collect(r.arrays, h)
        /\ out' = [Quiet EXCEPT !.op = "RemoveDecoration", !.name = heap[l].Name,
                                !.l = l, !.arg = d, !.panic = r.panic,
                                !.err = IF r.panic THEN "slice bounds out of range"
                                        ELSE ""]
        /\ UNCHANGED <<cloggers, flags>>

-----------------------------------------------------------------------------
(* The print path                                                           *)

\* PrintStdOut with its two steps in the other order
PrintStdOutDecoratesFirst(f, decorations, msg, now) ==
    LET m1 == IF f.UseDecoration THEN decorate(msg, decorations) ELSE msg
        m2 == IF f.PrependTimestamp THEN prependTimestamp(m1, now) ELSE m1
    IN  Println(m2)

\* PrintStdOut that decorates whatever UseDecoration says
PrintStdOutAlwaysDecorates(f, decorations, msg, now) ==
    LET m1 == IF f.PrependTimestamp THEN prependTimestamp(msg, now) ELSE msg
    IN  Println(decorate(m1, decorations))

\* PrintStdOut: what it writes to the standard output
PrintStdOut(f, decorations, msg, now) ==
    LET m1 == IF f.PrependTimestamp THEN prependTimestamp(msg, now) ELSE msg
        m2 == IF f.UseDecoration THEN decorate(m1, decorations) ELSE m1
    IN  Println(m2)

PrintfStdOut(f, decorations, formatString, args, now) ==
    PrintStdOut(f, decorations, Sprintf(formatString, args), now)

\* Print with a strict comparison of the levels
PrintWritesStrict(f, c, decorations, msg, now) ==
    LET m == Sprintf(<<"[", "%", "s", "]", " ", "%", "s">>, <<c.Name, msg>>)
    IN  [syslog |-> IF f.LogToSyslog /\ c.Logger
                    THEN <<[priority |-> c.Priority, text |-> LoggerOutput(m)]>>
                    ELSE <<>>,
         stdout |-> IF f.LogToStdOut /\ f.LogLevel < c.LogLevel
                    THEN <<PrintStdOut(f, decorations, m, now)>>
                    ELSE <<>>]

\* Print that takes the terminal path whenever the syslog path was not taken
PrintWritesFallsBack(f, c, decorations, msg, now) ==
    LET m == Sprintf(<<"[", "%", "s", "]", " ", "%", "s">>, <<c.Name, msg>>)
        logged == f.LogToSyslog /\ c.Logger
    IN  [syslog |-> IF logged
                    THEN <<[priority |-> c.Priority, text |-> LoggerOutput(m)]>>
                    ELSE <<>>,
         stdout |-> IF (f.LogToStdOut \/ ~logged) /\ f.LogLevel <= c.LogLevel
                    THEN <<PrintStdOut(f, decorations, m, now)>>
                    ELSE <<>>]

\* Print with the level gate put on both sinks
PrintWritesGatesSyslog(f, c, decorations, msg, now) ==
    LET m == Sprintf(<<"[", "%", "s", "]", " ", "%", "s">>, <<c.Name, msg>>)
    IN  [syslog |-> IF f.LogToSyslog /\ c.Logger /\ f.LogLevel <= c.LogLevel
                    THEN <<[priority |-> c.Priority, text |-> LoggerOutput(m)]>>
                    ELSE <<>>,
         stdout |-> IF f.LogToStdOut /\ f.LogLevel <= c.LogLevel
                    THEN <<PrintStdOut(f, decorations, m, now)>>
                    ELSE <<>>]

\* Print that turns to the syslog whenever LogToSyslog is set, handle or not
PrintWritesIgnoresHandle(f, c, decorations, msg, now) ==
    LET m == Sprintf(<<"[", "%", "s", "]", " ", "%", "s">>, <<c.Name, msg>>)
    IN  [syslog |-> IF f.LogToSyslog
                    THEN <<[priority |-> c.Priority, text |-> LoggerOutput(m)]>>
                    ELSE <<>>,
         stdout |-> IF f.LogToStdOut /\ f.LogLevel <= c.LogLevel
                    THEN <<PrintStdOut(f, decorations, m, now)>>
                    ELSE <<>>]

\* the sink writes of Clogger.Print on Clogger c: the syslog deliveries
\* (the priority of the handle and the bytes handed to it) and the writes
\* to the standard output
PrintWrites(f, c, decorations, msg, now) ==
    LET m == Sprintf(<<"[", "%", "s", "]", " ", "%", "s">>, <<c.Name, msg>>)
    IN  [syslog |-> IF f.LogToSyslog /\ c.Logger
                    THEN <<[priority |-> c.Priority, text |-> LoggerOutput(m)]>>
                    ELSE <<>>,
         stdout |-> IF f.LogToStdOut /\ f.LogLevel <= c.LogLevel
                    THEN <<PrintStdOut(f, decorations, m, now)>>
                    ELSE <<>>]

\* the sink writes of Clogger.Printf
PrintfWrites(f, c, decorations, formatString, args, now) ==
    LET fs == Sprintf(<<"[", "%", "s", "]", " ", "%", "s">>, <<c.Name, formatString>>)
    IN  [syslog |-> IF f.LogToSyslog /\ c.Logger
                    THEN <<[priority |-> c.Priority,
                            text |-> LoggerOutput(Sprintf(fs, args))]>>
                    ELSE <<>>,
         stdout |-> IF f.LogToStdOut /\ f.LogLevel <= c.LogLevel
                    THEN <<PrintfStdOut(f, decorations, fs, args, now)>>
                    ELSE <<>>]

\* l.Print(msg)
CloggerPrint(l, msg, now) ==
    LET w == PrintWrites(flags, heap[l], Elems(arrays, heap[l].Decorations), msg, now)
    IN  /\ Idle
        /\ out' = [Quiet EXCEPT !.op = "Print", !.name = heap[l].Name, !.l = l,
                                !.msg = msg, !.stdout = w.stdout, !.syslog = w.syslog]
        /\ UNCHANGED <<cloggers, heap, arrays, flags>>

\* l.Printf(formatString, args...)
Printf(l, formatString, args, now) ==
    LET w == PrintfWrites(flags, heap[l], Elems(arrays, heap[l].Decorations),
                          formatString, args, now)
    IN  /\ Idle
        /\ out' = [Quiet EXCEPT !.op = "Printf", !.name = heap[l].Name, !.l = l,
                                !.msg = formatString, !.arg = args, !.stdout = w.stdout,
                                !.syslog = w.syslog]
        /\ UNCHANGED <<cloggers, heap, arrays, flags>>

\* a package-level function of a default clogger: the lookup by its fixed
\* name, then Print on what the lookup gave
ByName(op, name, msg, now) ==
    LET r == Lookup(cloggers, name)
        w == PrintWrites(flags, heap[r.l], Elems(arrays, heap[r.l].Decorations), msg, now)
    IN  /\ Idle
        /\ out' = IF r.panic
                  THEN [Quiet EXCEPT !.op = op, !.name = name, !.msg = msg,
                                     !.panic = TRUE, !.err = r.err]
                  ELSE [Quiet EXCEPT !.op = op, !.name = name, !.l = r.l, !.msg = msg,
                                     !.stdout = w.stdout, !.syslog = w.syslog]
        /\ UNCHANGED <<cloggers, heap, arrays, flags>>

Debug(msg, now) == ByName("Debug", NameDebug, msg, now)
Info(msg, now) == ByName("Info", NameInfo, msg, now)
Notice(msg, now) == ByName("Notice", NameNotice, msg, now)
Warning(msg, now) == ByName("Warning", NameWarning, msg, now)
Error(msg, now) == ByName("Error", NameError, msg, now)
Crit(msg, now) == ByName("Crit", NameCrit, msg, now)

\* a package-level formatting function of a default clogger: the lookup by
\* its fixed name, then Printf on what the lookup gave
ByNamef(op, name, formatString, args, now) ==
    LET r == Lookup(cloggers, name)
        w == PrintfWrites(flags, heap[r.l], Elems(arrays, heap[r.l].Decorations),
                          formatString, args, now)
    IN  /\ Idle
        /\ out' = IF r.panic
                  THEN [Quiet EXCEPT !.op = op, !.name = name, !.msg = formatString,
                                     !.arg = args, !.panic = TRUE, !.err = r.err]
                  ELSE [Quiet EXCEPT !.op = op, !.name = name, !.l = r.l,
                                     !.msg = formatString, !.arg = args,
                                     !.stdout = w.stdout, !.syslog = w.syslog]
        /\ UNCHANGED <<cloggers, heap, arrays, flags>>

Critf(formatString, args, now) == ByNamef("Critf", NameCrit, formatString, args, now)

\* Fatal and Fatalf up to the return of their first statement, the call of
\* Crit or Critf; LogFatal is their second statement
Fatal(msg, now) == ByName("Fatal", NameCrit, msg, now)
Fatalf(formatString, args, now) == ByNamef("Fatalf", NameCrit, formatString, args, now)

FatalOps == {"Fatal", "Fatalf"}

\* Fatal or Fatalf is between its two statements
InFatal == out.op \in FatalOps /\ ~out.panic /\ ~out.exited /\ out.stderr = <<>>

\* what Fatal and Fatalf hand to the standard logger
FatalText == IF out.op = "Fatal" THEN out.msg ELSE Sprintf(out.msg, out.arg)

\* the second statement with log.Print in the place of log.Fatal: the line
\* is logged and the function returns to its caller
LogFatalReturns ==
    /\ InFatal
    /\ out' = Quiet
    /\ UNCHANGED <<cloggers, heap, arrays, flags>>

\* the second statement of Fatal and Fatalf, log.Fatal or log.Fatalf: the
\* text goes to the standard logger and os.Exit(1) ends the process
LogFatal ==
    /\ InFatal
    /\ out' = [out EXCEPT !.stderr = <<[by |-> "log.Fatal",
                                        text |-> LoggerOutput(FatalText)]>>,
                          !.exited = TRUE]
    /\ UNCHANGED <<cloggers, heap, arrays, flags>>

PrintWithDecorations(msg, decorations) ==
    /\ Idle
    /\ out' = [Quiet EXCEPT !.op = "PrintWithDecorations", !.msg = msg,
                            !.arg = decorations,
                            !.stdout = <<Println(decorate(msg, decorations))>>]
    /\ UNCHANGED <<cloggers, heap, arrays, flags>>

-----------------------------------------------------------------------------
(* NewDecoration                                                            *)

Digits == {"0", "1", "2", "3", "4", "5", "6", "7", "8", "9"}

\* the characters the strings given to NewDecoration are made of
CodeAlphabet == {ESC, "[", "3", ";", "m", "G", "x", LF}

\* the strings NewDecoration is called with
Codes == UNION {[1..n -> CodeAlphabet] : n \in 0..MaxCodeLen}

\* the tail [0-9;]*[mG]$ matched against the pattern that ends at any place
MatchTailUnanchored(sgrCode, i) ==
    \E k \in i..Len(sgrCode) :
        /\ sgrCode[k] \in {"m", "G"}
        /\ \A j \in i..(k - 1) : sgrCode[j] \in Digits \cup {";"}

RECURSIVE MatchTail(_, _)
\* [0-9;]*[mG]$ matched from position i: the star takes characters of its
\* class one by one, and the character of the last class must be the last
\* of the text ($ without the m flag matches at the end of the text only)
MatchTail(sgrCode, i) ==
    IF i > Len(sgrCode) THEN FALSE
    ELSE IF sgrCode[i] \in Digits \cup {";"} THEN MatchTail(sgrCode, i + 1)
    ELSE sgrCode[i] \in {"m", "G"} /\ i = Len(sgrCode)

\* the match without the $ of the pattern
MatchStringUnanchored(sgrCode) ==
    /\ Len(sgrCode) >= 2
    /\ sgrCode[1] = ESC
    /\ sgrCode[2] = "["
    /\ MatchTailUnanchored(sgrCode, 3)

\* reg.MatchString(sgrCode) for the pattern ^\x1b\[[0-9;]*[mG]$
MatchString(sgrCode) ==
    /\ Len(sgrCode) >= 2
    /\ sgrCode[1] = ESC
    /\ sgrCode[2] = "["
    /\ MatchTail(sgrCode, 3)

\* NewDecoration(sgrCode): out.arg holds the Decoration returned, if any
NewDecoration(sgrCode) ==
    /\ Idle
    /\ out' = IF ~MatchString(sgrCode)
              THEN [Quiet EXCEPT !.op = "NewDecoration", !.msg = sgrCode,
                                 !.panic = TRUE, !.err = "invalid sgr code"]
              ELSE [Quiet EXCEPT !.op = "NewDecoration", !.msg = sgrCode,
                                 !.arg = <<sgrCode>>]
    /\ UNCHANGED <<cloggers, heap, arrays, flags>>

-----------------------------------------------------------------------------
(* Assignments to the package-level flags                                   *)

SetLogToStdOut(b) ==
    /\ Idle
    /\ flags' = [flags EXCEPT !.LogToStdOut = b]
    /\ out' = Quiet
    /\ UNCHANGED <<cloggers, heap, arrays>>

SetLogToSyslog(b) ==
    /\ Idle
    /\ flags' = [flags EXCEPT !.LogToSyslog = b]
    /\ out' = Quiet
    /\ UNCHANGED <<cloggers, heap, arrays>>

SetUseDecoration(b) ==
    /\ Idle
    /\ flags' = [flags EXCEPT !.UseDecoration = b]
    /\ out' = Quiet
    /\ UNCHANGED <<cloggers, heap, arrays>>

SetPrependTimestamp(b) ==
    /\ Idle
    /\ flags' = [flags EXCEPT !.PrependTimestamp = b]
    /\ out' = Quiet
    /\ UNCHANGED <<cloggers, heap, arrays>>

SetPrependLoggerName(b) ==
    /\ Idle
    /\ flags' = [flags EXCEPT !.PrependLoggerName = b]
    /\ out' = Quiet
    /\ UNCHANGED <<cloggers, heap, arrays>>

SetLogLevel(m) ==
    /\ Idle
    /\ flags' = [flags EXCEPT !.LogLevel = m]
    /\ out' = Quiet
    /\ UNCHANGED <<cloggers, heap, arrays>>

-----------------------------------------------------------------------------------------------------------------------------------------------------
(* The specifications                                                       *)

Formats == {<<"%", "s", "!">>}
ArgLists == {<<hello>>}

\* the call returns (or the application recovers from its panic) and the
\* application has taken note of what the call did
Return ==
    /\ out # Quiet
    /\ ~out.exited
    /\ ~InFatal
    /\ out' = Quiet
    /\ UNCHANGED <<cloggers, heap, arrays, flags>>

\* the Cloggers the application created itself
Custom == {l \in DOMAIN heap : heap[l].Name \in CustomNames}

\* Spec: the registry, the print path and the flags. The application
\* creates Cloggers, looks them up, prints through them, changes the
\* decorations of its own Cloggers and assigns the flags, one call after
\* the other, in any order.
Next ==
    \/ \E name \in {NameInfo, MyName}, logLevel \in LevelArgs, opened \in BOOLEAN :
            NewClogger(name, logLevel, [kind |-> "list", elems |-> <<>>, of |-> 0], opened)
    \/ \E name \in Names : GetCloggerByName(name)
    \/ \E l \in Custom, d \in Palette : AddDecoration(l, d)
    \/ \E l \in Custom, d \in Palette : RemoveDecoration(l, d)
    \/ \E l \in DOMAIN heap, msg \in Msgs, now \in Instants : CloggerPrint(l, msg, now)
    \/ \E l \in DOMAIN heap, formatString \in Formats, args \in ArgLists,
          now \in Instants : Printf(l, formatString, args, now)
    \/ \E msg \in Msgs, now \in Instants : Debug(msg, now)
    \/ \E msg \in Msgs, now \in Instants : Info(msg, now)
    \/ \E msg \in Msgs, now \in Instants : Notice(msg, now)
    \/ \E msg \in Msgs, now \in Instants : Warning(msg, now)
    \/ \E msg \in Msgs, now \in Instants : Error(msg, now)
    \/ \E msg \in Msgs, now \in Instants : Crit(msg, now)
    \/ \E msg \in Msgs, decorations \in DecorationArgs : PrintWithDecorations(msg, decorations)
    \/ \E b \in BOOLEAN : SetLogToStdOut(b)
    \/ \E b \in BOOLEAN : SetLogToSyslog(b)
    \/ \E b \in BOOLEAN : SetUseDecoration(b)
    \/ \E b \in BOOLEAN : SetPrependTimestamp(b)
    \/ \E b \in BOOLEAN : SetPrependLoggerName(b)
    \/ \E m \in Levels : SetLogLevel(m)
    \/ Return

Spec == Init /\ [][Next]_vars

\* the Cloggers whose decorations the application changes: its own and,
\* of the defaults, Error
Mutable == {l \in DOMAIN heap : heap[l].Name \in CustomNames \cup {NameError}}

\* SpecDecorations: the decoration lists. Under the flags as declared, the
\* application creates Cloggers (also from the Decorations slice of another
\* Clogger), adds and removes decorations, and prints.
NextDecorations ==
    \/ \E name \in CustomNames \cup {NameError}, logLevel \in {LogLevelInfo},
          arg \in {a \in CallerArgs(heap) : a.kind = "slice" => a.of \in Mutable},
          opened \in {TRUE} : NewClogger(name, logLevel, arg, opened)
    \/ \E l \in Mutable, d \in Palette : AddDecoration(l, d)
    \/ \E l \in Mutable, d \in Palette : RemoveDecoration(l, d)
    \/ \E l \in Mutable, msg \in Msgs, now \in Instants : CloggerPrint(l, msg, now)
    \/ \E msg \in Msgs, decorations \in DecorationArgs : PrintWithDecorations(msg, decorations)
    \/ Return

SpecDecorations == Init /\ [][NextDecorations]_vars

\* SpecFatal: Crit, Critf, Fatal and Fatalf under every setting of the sink
\* flags and of LogLevel. A process that is inside Fatal goes on to the
\* second statement.
NextFatal ==
    \/ \E msg \in Msgs, now \in Instants : Crit(msg, now)
    \/ \E formatString \in Formats, args \in ArgLists, now \in Instants :
            Critf(formatString, args, now)
    \/ \E msg \in Msgs, now \in Instants : Fatal(msg, now)
    \/ \E formatString \in Formats, args \in ArgLists, now \in Instants :
            Fatalf(formatString, args, now)
    \/ LogFatal
    \/ \E b \in BOOLEAN : SetLogToStdOut(b)
    \/ \E b \in BOOLEAN : SetLogToSyslog(b)
    \/ \E m \in Levels : SetLogLevel(m)
    \/ Return

SpecFatal == Init /\ [][NextFatal]_vars /\ WF_vars(LogFatal)

\* SpecFormat: Print and Printf through Cloggers of the application, one of
\* them under a name that holds a formatting verb, under any setting of the
\* sink flags.
NextFormat ==
    \/ \E name \in FormatNames, opened \in BOOLEAN :
            NewClogger(name, LogLevelInfo, [kind |-> "list", elems |-> <<>>, of |-> 0],
                       opened)
    \/ \E l \in DOMAIN heap, msg \in Msgs, now \in Instants : CloggerPrint(l, msg, now)
    \/ \E l \in DOMAIN heap, formatString \in Formats, args \in ArgLists,
          now \in Instants : Printf(l, formatString, args, now)
    \/ \E b \in BOOLEAN : SetLogToStdOut(b)
    \/ \E b \in BOOLEAN : SetLogToSyslog(b)
    \/ \E b \in BOOLEAN : SetUseDecoration(b)
    \/ Return

SpecFormat == Init /\ [][NextFormat]_vars

\* SpecCodes: the application makes decorations of its own from strings.
NextCodes ==
    \/ \E sgrCode \in (IF Idle THEN Codes ELSE {}) : NewDecoration(sgrCode)
    \/ Return

SpecCodes == Init /\ [][NextCodes]_vars

-----------------------------------------------------------------------------
(* Properties                                                               *)

\* the calls that print one message through a Clogger: its Print method and
\* the package-level functions of the default cloggers
PrintOps == {"Print", "Debug", "Info", "Notice", "Warning", "Error", "Crit"}

\* out records a print that found its Clogger
Printed == out.op \in PrintOps /\ ~out.panic

\* the line "[name] msg" that Print builds before it turns to the sinks
Prefixed(name, msg) == <<"[">> \o name \o <<"]", " ">> \o msg

\* C1 -- Registry uniqueness: a NewClogger call that reaches the
\* registration under a name already in the registry fails with the
\* duplicate-name error, and the registry and the Clogger it held under that
\* name are as before (the new Clogger is not stored, the first not replaced).
C1_RegistryUniqueness ==
    [][(/\ out'.op = "NewClogger"
        /\ out'.name \in DOMAIN cloggers
        /\ out'.arg[1] \in DOMAIN LogLevelSysLogPriorityMap)
       => (/\ out'.panic
           /\ out'.err = "already exists"
           /\ cloggers' = cloggers
           /\ heap' = heap)]_vars

\* a second Clogger was created under the name of the application's own
\* Clogger, and the call failed
C1_Witness ==
    /\ out.op = "NewClogger"
    /\ out.name = MyName
    /\ out.err = "already exists"
    /\ MyName \in DOMAIN cloggers

\* C2 -- Lookup permanence: no step removes or redirects an entry of the
\* registry, the Clogger an entry points to keeps the entry's name, and a
\* lookup of a registered name returns, without panic, the pointer stored.
C2_LookupPermanence ==
    [][/\ \A n \in DOMAIN cloggers :
            /\ n \in DOMAIN cloggers'
            /\ cloggers'[n] = cloggers[n]
            /\ heap'[cloggers'[n]].Name = n
       /\ (out'.op = "GetCloggerByName" /\ out'.name \in DOMAIN cloggers)
            => (/\ ~out'.panic
                /\ out'.l = cloggers[out'.name]
                /\ heap'[out'.l].Name = out'.name)]_vars

\* the application's Clogger is looked up after its decorations and the
\* flags have changed
C2_Witness ==
    /\ out.op = "GetCloggerByName"
    /\ out.name = MyName
    /\ ~out.panic
    /\ heap[out.l].Decorations.len > 0
    /\ flags.LogToSyslog
    /\ flags.LogLevel = LogLevelError

\* C3 -- a lookup of a name that is not in the registry panics and returns
\* no Clogger, and a lookup, hit or miss, leaves the registry and the
\* Cloggers as they were.
C3_LookupMiss ==
    [][out'.op = "GetCloggerByName"
       => (/\ cloggers' = cloggers
           /\ heap' = heap
           /\ arrays' = arrays
           /\ out'.name \notin DOMAIN cloggers => (out'.panic /\ out'.l = 0))]_vars

\* a name no Clogger has was looked up
C3_Witness ==
    /\ out.op = "GetCloggerByName"
    /\ out.name = NoName
    /\ out.panic

\* C4 -- Level gating: with LogToStdOut set, a print writes one line to the
\* standard output when the Clogger's level is at or above LogLevel, and
\* none when it is below.
C4_LevelGating ==
    (Printed /\ flags.LogToStdOut)
        => Len(out.stdout) = (IF heap[out.l].LogLevel >= flags.LogLevel THEN 1 ELSE 0)

\* LogLevel is Warning: the Error Clogger has printed a line
C4_Witness ==
    /\ Printed
    /\ flags.LogToStdOut
    /\ flags.LogLevel = LogLevelWarning
    /\ heap[out.l].LogLevel = LogLevelError
    /\ Len(out.stdout) = 1

\* C5 as stated -- with the terminal off and the syslog on every print makes
\* no standard-output line and one syslog delivery; with the terminal on
\* and the syslog off, one standard-output line and no syslog delivery.
C5_EveryPrint ==
    Printed =>
        /\ (~flags.LogToStdOut /\ flags.LogToSyslog)
            => (Len(out.stdout) = 0 /\ Len(out.syslog) = 1)
        /\ (flags.LogToStdOut /\ ~flags.LogToSyslog)
            => (Len(out.stdout) = 1 /\ Len(out.syslog) = 0)

\* C5 -- Dual-sink independence, amended: with the terminal off and the
\* syslog on, a print makes no standard-output line, and one syslog
\* delivery if the Clogger holds a syslog handle (none if it holds none);
\* with the terminal on and the syslog off, it makes no syslog delivery, and
\* one standard-output line if the Clogger's level is at or above LogLevel
\* (none if it is below).
C5_DualSink ==
    Printed =>
        /\ (~flags.LogToStdOut /\ flags.LogToSyslog)
            => (/\ Len(out.stdout) = 0
                /\ Len(out.syslog) = (IF heap[out.l].Logger THEN 1 ELSE 0))
        /\ (flags.LogToStdOut /\ ~flags.LogToSyslog)
            => (/\ Len(out.syslog) = 0
                /\ Len(out.stdout) =
                     (IF heap[out.l].LogLevel >= flags.LogLevel THEN 1 ELSE 0))

\* the terminal is off and the syslog on: a print went to the syslog alone
C5_Witness ==
    /\ Printed
    /\ ~flags.LogToStdOut
    /\ flags.LogToSyslog
    /\ Len(out.syslog) = 1
    /\ Len(out.stdout) = 0

\* C6 -- the syslog path is not level-gated: with LogToSyslog set, a print
\* through a Clogger that holds a handle makes exactly one delivery to it,
\* at the Clogger's priority, whatever LogLevel is; the text is "[name] msg"
\* (ended by the line feed log.Logger adds), with no timestamp and no
\* decoration code, whatever PrependTimestamp and UseDecoration are.
C6_SyslogNotGated ==
    (Printed /\ flags.LogToSyslog /\ heap[out.l].Logger)
        => (/\ Len(out.syslog) = 1
            /\ out.syslog[1].text = Prefixed(heap[out.l].Name, out.msg) \o <<LF>>
            /\ out.syslog[1].priority = heap[out.l].Priority)

\* a Clogger below LogLevel delivered to the syslog, timestamps and
\* decorations being on
C6_Witness ==
    /\ Printed
    /\ flags.LogToSyslog
    /\ flags.LogToStdOut
    /\ flags.PrependTimestamp
    /\ flags.UseDecoration
    /\ heap[out.l].LogLevel < flags.LogLevel
    /\ Len(out.syslog) = 1
    /\ Len(out.stdout) = 0

\* the flags and the Info clogger are as the package initialisation left
\* them, and out records Info("hello")
InfoHelloByDefault ==
    /\ out.op = "Info"
    /\ out.msg = hello
    /\ flags = DefaultFlags
    /\ Elems(arrays, heap[cloggers[NameInfo]].Decorations) = <<FG_GREEN>>

\* C7 as stated -- Info("hello") under the default flags writes one line
\* made of the Info decoration code, "[Info] ", the timestamp, "hello" and
\* the reset code, in this order, and delivers nothing to the syslog.
C7_NameBeforeTimestamp ==
    InfoHelloByDefault =>
        /\ out.syslog = <<>>
        /\ \E now \in Instants :
             out.stdout = << FG_GREEN \o <<"[", "I", "n", "f", "o", "]", " ">>
                             \o timestamp(now) \o <<" ">> \o hello \o RESET
                             \o <<LF>> >>

\* C7 -- End-to-end line, amended: Info("hello") under the default flags
\* writes one line made of the Info decoration code, the timestamp, a
\* space, "[Info] ", "hello" and the reset code, in this order, and
\* delivers nothing to the syslog.
C7_EndToEnd ==
    InfoHelloByDefault =>
        /\ out.syslog = <<>>
        /\ \E now \in Instants :
             out.stdout = << FG_GREEN \o timestamp(now) \o <<" ">>
                             \o <<"[", "I", "n", "f", "o", "]", " ">> \o hello
                             \o RESET \o <<LF>> >>

\* Info("hello") was called under the default flags and wrote a line
C7_Witness ==
    /\ InfoHelloByDefault
    /\ ~out.panic
    /\ Len(out.stdout) = 1

\* C8 as stated -- with no decorations the text is written bare:
\* PrintWithDecorations called with none, and a print (timestamps off)
\* through a Clogger that has none, write the message with nothing before
\* it and no reset code after it.
C8_BareWithoutDecorations ==
    /\ (out.op = "PrintWithDecorations" /\ out.arg = <<>>)
        => out.stdout = <<out.msg \o <<LF>>>>
    /\ (/\ Printed
        /\ Len(out.stdout) = 1
        /\ ~flags.PrependTimestamp
        /\ heap[out.l].Decorations.len = 0)
        => out.stdout = <<Prefixed(heap[out.l].Name, out.msg) \o <<LF>>>>

\* the first occurrence of d taken out of the sequence s
RemoveFirst(s, d) ==
    IF \E i \in 1..Len(s) : s[i] = d
    THEN LET i == CHOOSE i \in 1..Len(s) : s[i] = d /\ \A j \in 1..(i - 1) : s[j] # d
         IN  SubSeq(s, 1, i - 1) \o SubSeq(s, i + 1, Len(s))
    ELSE s

\* C9 as stated -- RemoveDecoration(d) takes the first element equal to d
\* out of the Clogger's decorations and keeps all the others, later
\* duplicates of d among them, in their order.
C9_RemovesFirstMatch ==
    [][out'.op = "RemoveDecoration"
       => Elems(arrays', heap'[out'.l].Decorations)
            = RemoveFirst(Elems(arrays, heap[out'.l].Decorations), out'.arg)]_vars

\* C10 as stated -- Mutation isolation: AddDecoration and RemoveDecoration
\* on one Clogger leave the decorations seen through every other Clogger
\* as they were.
C10_MutationIsolation ==
    [][out'.op \in {"AddDecoration", "RemoveDecoration"}
       => \A q \in DOMAIN heap \ {out'.l} :
            Elems(arrays', heap'[q].Decorations) = Elems(arrays, heap[q].Decorations)]_vars

\* sub occurs in line as a run of consecutive characters
Contains(line, sub) ==
    \E i \in 0..(Len(line) - Len(sub)) :
        \A j \in 1..Len(sub) : line[i + j] = sub[j]

\* C11 as stated -- Name-prefix toggle: the terminal line of a print
\* carries the prefix "[name] " when PrependLoggerName is true and carries
\* no such prefix when it is false.
C11_NamePrefixToggle ==
    (Printed /\ Len(out.stdout) = 1)
        => (flags.PrependLoggerName
              <=> Contains(out.stdout[1], Prefixed(heap[out.l].Name, <<>>)))

\* the line holds no ESC byte
NoEscape(line) == \A i \in DOMAIN line : line[i] # ESC

\* C12 -- Decoration toggle: with UseDecoration false the terminal line of
\* a print (Print, Printf or a package-level function) holds no ESC byte,
\* neither of the decorations of the Clogger nor of the reset code.
C12_DecorationToggle ==
    ((Printed \/ out.op = "Printf") /\ ~flags.UseDecoration)
        => \A i \in DOMAIN out.stdout : NoEscape(out.stdout[i])

\* a print with UseDecoration false wrote a line through a Clogger that
\* has decorations
C12_Witness ==
    /\ Printed
    /\ ~flags.UseDecoration
    /\ Len(out.stdout) = 1
    /\ heap[out.l].Decorations.len > 0

\* C15 as stated -- a Clogger created while LogToSyslog is false holds no
\* syslog logger.
C15_NoHandleWhenDisabled ==
    (out.op = "NewClogger" /\ ~out.panic /\ ~flags.LogToSyslog)
        => ~heap[out.l].Logger

\* C15 -- Handle at creation, amended: the Clogger NewClogger returns holds
\* a syslog logger exactly when syslog.NewLogger gave one, whatever
\* LogToSyslog is when it is created.
C15_HandleIffOpened ==
    (out.op = "NewClogger" /\ ~out.panic)
        => (heap[out.l].Logger <=> out.opened)

\* NewClogger returned a Clogger that holds a logger, with LogToSyslog false
C15_Witness ==
    /\ out.op = "NewClogger"
    /\ ~out.panic
    /\ ~flags.LogToSyslog
    /\ heap[out.l].Logger

\* NewClogger whose syslog.NewLogger fails, called with a level that has a
\* priority and a name not registered yet: it returns a registered Clogger
\* that holds no logger
FailedOpenStillConstructs ==
    (/\ out'.op = "NewClogger"
     /\ ~out'.opened
     /\ out'.arg[1] \in DOMAIN LogLevelSysLogPriorityMap
     /\ out'.name \notin DOMAIN cloggers)
    => (/\ ~out'.panic
        /\ out'.name \in DOMAIN cloggers'
        /\ cloggers'[out'.name] = out'.l
        /\ heap'[out'.l].Name = out'.name
        /\ ~heap'[out'.l].Logger)

\* no step gives a Clogger a logger, or takes its logger away
HandleKept ==
    \A p \in DOMAIN heap : p \in DOMAIN heap' /\ heap'[p].Logger = heap[p].Logger

\* a print through a Clogger that holds no logger delivers nothing to the
\* syslog, writes its line to the standard output as the level gate
\* decides, and does not panic
DegradedPrint ==
    (/\ out.op \in PrintOps \cup {"Printf"}
     /\ out.l \in DOMAIN heap
     /\ ~heap[out.l].Logger)
    => (/\ ~out.panic
        /\ out.syslog = <<>>
        /\ Len(out.stdout) = (IF flags.LogToStdOut /\ flags.LogLevel <= heap[out.l].LogLevel
                               THEN 1 ELSE 0))

C18_RemoveNeverPanics ==
    out.op = "RemoveDecoration" => ~out.panic

\* s is ESC, "[", then any number of digits and semicolons, then a last
\* character that is m or G
WellFormedCode(s) ==
    /\ Len(s) >= 3
    /\ s[1] = ESC
    /\ s[2] = "["
    /\ s[Len(s)] \in {"m", "G"}
    /\ \A j \in 3..(Len(s) - 1) : s[j] \in Digits \cup {";"}

\* C14 -- Decoration round trip: NewDecoration(s) on a well-formed s
\* returns a Decoration whose code, as decorate writes it, is s; on every
\* other s it panics with the invalid-code error and returns no Decoration.
C14_RoundTrip ==
    out.op = "NewDecoration"
        => IF WellFormedCode(out.msg)
           THEN /\ ~out.panic
                /\ Len(out.arg) = 1
                /\ decorationsCode(out.arg) = out.msg
           ELSE /\ out.panic
                /\ out.err = "invalid sgr code"
                /\ out.arg = <<>>

\* NewDecoration returned a Decoration for a code with a digit and a
\* semicolon in it
C14_Witness ==
    /\ out.op = "NewDecoration"
    /\ ~out.panic
    /\ out.msg = <<ESC, "[", "3", ";", "m">>
    /\ out.arg = <<out.msg>>

\* C17 as stated -- Printf is Print of the formatted text: for every
\* Clogger, whatever its name, l.Printf(format, args...) makes the sink
\* deliveries, with the same text, that l.Print(Sprintf(format, args...))
\* makes.
C17_PrintfIsPrintOfFormat ==
    out.op = "Printf"
        => \E now \in Instants :
             LET w == PrintWrites(flags, heap[out.l],
                                  Elems(arrays, heap[out.l].Decorations),
                                  Sprintf(out.msg, out.arg), now)
             IN  out.stdout = w.stdout /\ out.syslog = w.syslog

\* what Crit (for Fatal) or Critf (for Fatalf) writes to the sinks when
\* called with the arguments of the call out records
CritWrites(now) ==
    LET c == heap[cloggers[NameCrit]]
        decorations == Elems(arrays, c.Decorations)
    IN  IF out.op = "Fatal"
        THEN PrintWrites(flags, c, decorations, out.msg, now)
        ELSE PrintfWrites(flags, c, decorations, out.msg, out.arg, now)

\* a call of Fatal or Fatalf does not panic and has written to the sinks
\* what Crit or Critf writes
FatalPrintsAsCrit ==
    out.op \in FatalOps
        => /\ ~out.panic
           /\ \E now \in Instants :
                out.stdout = CritWrites(now).stdout /\ out.syslog = CritWrites(now).syslog

\* from inside Fatal or Fatalf the only step is the one that ends the
\* process: the call does not return
FatalNeverReturns ==
    out.op \in FatalOps => (out'.op = out.op /\ out'.exited)

\* the process ends only by a step of Fatal or Fatalf, taken after the
\* print: the sinks hold the writes already and the step adds none
PrintBeforeExit ==
    out'.exited
        => /\ out.op \in FatalOps
           /\ ~out.exited
           /\ out'.stdout = out.stdout
           /\ out'.syslog = out.syslog

====
